---- MODULE Spec2Model ----
(***************************************************************************)
(* Model of wire_cut_simulation_app.py: the per-plate final-height loop,   *)
(* the pass/fail table and the 101-frame wire sweep of generate_animation. *)
(*                                                                         *)
(* Python floats are modelled as binary floating-point numbers with        *)
(* PrecBits significant bits and round-to-nearest-even; a number is held   *)
(* as an integer count of units of 2^-FracBits inch (values below          *)
(* 2^PrecBits units lie on the unit grid, as subnormals do).               *)
(*                                                                         *)
(* The import at line 133 of the script is indented by three spaces; it is *)
(* read as a statement of generate_animation's body, which it is meant to  *)
(* be.  A rerun of the script keeps the widget values (Rerun).             *)
(***************************************************************************)
EXTENDS Integers, Sequences, FiniteSets, TLC

\* ---- bounds of the model ----
PrecBits == 6
FracBits == 12
MaxPlates == 3
MaxRuns == 2

\* ---- program constants ----
NumFrames == 101
FrameDiv == 100

RECURSIVE Pow2(_)
Pow2(n) == IF n = 0 THEN 1 ELSE 2 * Pow2(n - 1)

One == Pow2(FracBits)

\* ---- floating-point arithmetic (Python float / numpy float64 operators) ----
MantLimit == Pow2(PrecBits)

RECURSIVE ScaleOf(_, _)
\* d * 2^e for the smallest e >= 0 with q/d < 2^(PrecBits+e)
ScaleOf(q, sc) == IF q < sc * MantLimit THEN sc ELSE ScaleOf(q, 2 * sc)

\* round the rational q/d (q >= 0, d > 0) to the nearest float, ties to even
RoundAbs(q, d) ==
    LET sc == ScaleOf(q, d)
        m == q \div sc
        r == q % sc
        mr == IF 2 * r > sc \/ (2 * r = sc /\ m % 2 = 1) THEN m + 1 ELSE m
    IN  (mr * sc) \div d

\* round the rational n/d (d > 0) to the nearest float
RN(n, d) == IF n < 0 THEN -RoundAbs(-n, d) ELSE RoundAbs(n, d)

IsFloat(x) == RN(x, 1) = x

FAdd(a, b) == RN(a + b, 1)
FSub(a, b) == RN(a - b, 1)
FMul(a, b) == RN(a * b, One)
\* int * float and float / int: the int operand is converted exactly
FMulInt(k, a) == RN(k * a, 1)
FDivInt(a, k) == RN(a, k)

PyMax(a, b) == IF b > a THEN b ELSE a
PyMin(a, b) == IF b < a THEN b ELSE a
NpClip(y, lo, hi) == PyMin(PyMax(y, lo), hi)

\* ---- input domains (st.number_input / st.slider ranges, sampled) ----
PlateCounts == 1..MaxPlates
PlateHeights == {One, 5 * One}
PlateWidths == {(3 * One) \div 2, (27 * One) \div 16}
Slopes == {-(One \div 16), 0, One \div 16}
OffsetsFor(n, h) ==
    {o \in {0, One \div 2, h, h + One \div 2, FMulInt(n, h)} :
        IsFloat(o) /\ 0 <= o /\ o <= FMulInt(n, h)}
TolerancesFor(h) == {<<0, h>>, <<One \div 2, One \div 2>>, <<h, One \div 2>>}

VARIABLES num_plates, plate_height, plate_width, cut_offset_top, slope,
          tol_min, tol_max, pc, i, final_heights, df, frame, wire_line,
          gif, prev_gif, run

inputs == <<num_plates, plate_height, plate_width, cut_offset_top, slope,
            tol_min, tol_max>>
vars == <<num_plates, plate_height, plate_width, cut_offset_top, slope,
          tol_min, tol_max, pc, i, final_heights, df, frame, wire_line,
          gif, prev_gif, run>>

\* ---- the height computation ----
wire_heights_at_left == cut_offset_top
wire_heights_at_right == FAdd(cut_offset_top, FMul(slope, plate_width))

\* sign slip: the plate's bottom is added instead of subtracted
plate_bottom_height_negated(k) == -FMulInt(k, plate_height)

plate_bottom_height(k) == FMulInt(k, plate_height)

\* the left-edge height alone, without averaging over the width
wire_height_at_plate_bottom_left_only(k) ==
    FSub(wire_heights_at_left, plate_bottom_height(k))

wire_height_at_plate_bottom_avg(k) ==
    LET l == FSub(wire_heights_at_left, plate_bottom_height(k))
        r == FSub(wire_heights_at_right, plate_bottom_height(k))
    IN  FDivInt(FAdd(l, r), 2)

\* the min(height_left, plate_height) line left out
height_left_no_ceiling(k) == PyMax(0, wire_height_at_plate_bottom_avg(k))

\* the max(0, ...) line left out
height_left_no_floor(k) == PyMin(wire_height_at_plate_bottom_avg(k), plate_height)

height_left(k) ==
    PyMin(PyMax(0, wire_height_at_plate_bottom_avg(k)), plate_height)

\* exclusive bounds instead of inclusive ones
Pass_exclusive(h) == tol_min < h /\ h < tol_max

Pass(h) == tol_min <= h /\ h <= tol_max

\* ---- the sweep ----
\* a frame counter that keeps counting across runs
x_start_carried(f) == FMulInt(f + Len(prev_gif), FDivInt(plate_width, FrameDiv))

x_start(f) == FMulInt(f, FDivInt(plate_width, FrameDiv))

x_vals(f) == <<x_start(f), plate_width>>

StackHeight == FMulInt(num_plates, plate_height)

y_vals(f) ==
    [k \in 1..2 |->
        NpClip(FAdd(cut_offset_top, FMul(slope, FSub(x_vals(f)[k], x_start(f)))),
               0, StackHeight)]

Init ==
    /\ num_plates \in PlateCounts
    /\ plate_height \in PlateHeights
    /\ plate_width \in PlateWidths
    /\ cut_offset_top \in OffsetsFor(num_plates, plate_height)
    /\ slope \in Slopes
    /\ \E t \in TolerancesFor(plate_height) : tol_min = t[1] /\ tol_max = t[2]
    /\ pc = "heights"
    /\ i = 0
    /\ final_heights = <<>>
    /\ df = <<>>
    /\ frame = 0
    /\ wire_line = <<>>
    /\ gif = <<>>
    /\ prev_gif = <<>>
    /\ run = 1

\* one iteration of the loop over range(num_plates)
HeightStep ==
    /\ pc = "heights"
    /\ i < num_plates
    /\ final_heights' = Append(final_heights, height_left(i))
    /\ i' = i + 1
    /\ UNCHANGED <<inputs, pc, df, frame, wire_line, gif, prev_gif, run>>

\* pd.DataFrame(...) with the Pass column, once the loop has ended
BuildDf ==
    /\ pc = "heights"
    /\ i = num_plates
    /\ df' = [k \in 1..Len(final_heights) |->
                [plate |-> k, height |-> final_heights[k],
                 pass |-> Pass(final_heights[k])]]
    /\ pc' = "anim_init"
    /\ UNCHANGED <<inputs, i, final_heights, frame, wire_line, gif, prev_gif, run>>

\* generate_animation up to init(): a fresh line and an empty buffer
AnimInit ==
    /\ pc = "anim_init"
    /\ wire_line' = <<>>
    /\ gif' = <<>>
    /\ frame' = 0
    /\ pc' = "animate"
    /\ UNCHANGED <<inputs, i, final_heights, df, prev_gif, run>>

\* animate(frame) for the next of the frames=101 frames; the writer grabs it
Animate ==
    /\ pc = "animate"
    /\ frame < NumFrames
    /\ wire_line' = [step |-> frame, x |-> x_vals(frame), y |-> y_vals(frame)]
    /\ gif' = Append(gif, wire_line')
    /\ frame' = frame + 1
    /\ UNCHANGED <<inputs, pc, i, final_heights, df, prev_gif, run>>

\* anim.save returns after the last frame; the buffer is handed to st.image
AnimDone ==
    /\ pc = "animate"
    /\ frame = NumFrames
    /\ pc' = "done"
    /\ UNCHANGED <<inputs, i, final_heights, df, frame, wire_line, gif, prev_gif, run>>

\* the script is run again from the top with the same widget values
Rerun ==
    /\ pc = "done"
    /\ run < MaxRuns
    /\ run' = run + 1
    /\ prev_gif' = gif
    /\ final_heights' = <<>>
    /\ i' = 0
    /\ pc' = "heights"
    /\ UNCHANGED <<inputs, df, frame, wire_line, gif>>

Next == HeightStep \/ BuildDf \/ AnimInit \/ Animate \/ AnimDone \/ Rerun

Spec == Init /\ [][Next]_vars

\* ---- properties ----
HeightsDone == pc # "heights" /\ Len(final_heights) = num_plates

\* the raw width-average height of plate k (0-based), written out from the
\* wire heights at x = 0 and x = plate_width relative to the plate
RawWidthAverage(k) ==
    FDivInt(FAdd(FSub(cut_offset_top, FMulInt(k, plate_height)),
                 FSub(FAdd(cut_offset_top, FMul(slope, plate_width)),
                      FMulInt(k, plate_height))), 2)

\* C1: every final height the loop has appended lies in [0, plate_height].
C1_HeightsClamped ==
    \A k \in 1..Len(final_heights) :
        0 <= final_heights[k] /\ final_heights[k] <= plate_height

\* a finished run in which one plate was cut off at plate_height and
\* another at 0
C1_Witness ==
    /\ HeightsDone
    /\ \E k \in 1..num_plates : RawWidthAverage(k - 1) > plate_height
    /\ \E k \in 1..num_plates : RawWidthAverage(k - 1) < 0

\* C2: a row of the table is marked passed exactly when its final height
\* lies in [tol_min, tol_max], both ends included; once the table is built
\* it has one row per plate, holding that plate's final height.
C2_PassIffInWindow ==
    /\ \A k \in 1..Len(df) :
          df[k].pass <=> (tol_min <= df[k].height /\ df[k].height <= tol_max)
    /\ HeightsDone =>
          /\ Len(df) = num_plates
          /\ \A k \in 1..num_plates : df[k].height = final_heights[k]

\* a table with a passed plate whose height equals tol_min = tol_max and a
\* failed plate outside the window
C2_Witness ==
    /\ HeightsDone
    /\ tol_min = tol_max
    /\ \E k \in 1..Len(df) : df[k].height = tol_min /\ df[k].pass
    /\ \E k \in 1..Len(df) : df[k].height # tol_min /\ ~df[k].pass

\* C3: with slope 0 every plate of a finished run has the same final
\* height: plate_height - cut_offset_top when the offset is measured from
\* the top, or cut_offset_top when it is measured from the bottom, clamped
\* to [0, plate_height].
C3_ZeroAngleUniform ==
    (slope = 0 /\ HeightsDone) =>
        \/ \A k \in 1..num_plates :
              final_heights[k] =
                  NpClip(FSub(plate_height, cut_offset_top), 0, plate_height)
        \/ \A k \in 1..num_plates :
              final_heights[k] = NpClip(cut_offset_top, 0, plate_height)

C5_InvalidToleranceRejected ==
    tol_min > tol_max =>
        final_heights = <<>> /\ df = <<>> /\ pc # "done"

\* C6 (what the claim implies for the first and the last frame): the frames
\* are numbered 0, 1, ... in order, there are never more than 101 of them
\* and exactly 101 at the end, the leading x is 0 at step 0 and exactly
\* plate_width at step 100.
C6_SweepReachesPlateWidth ==
    /\ Len(gif) <= NumFrames
    /\ pc = "done" => Len(gif) = NumFrames
    /\ \A k \in 1..Len(gif) :
          /\ gif[k].step = k - 1
          /\ k = 1 => gif[k].x[1] = 0
          /\ k = NumFrames => gif[k].x[1] = plate_width

C9_WireInsideStack ==
    \A k \in 1..Len(gif) :
        /\ \A e \in 1..2 :
              /\ 0 <= gif[k].x[e] /\ gif[k].x[e] <= plate_width
              /\ 0 <= gif[k].y[e] /\ gif[k].y[e] <= StackHeight
        /\ gif[k].x[1] <= gif[k].x[2]
        /\ gif[k].x[2] = plate_width
        /\ gif[k].y[1] = NpClip(cut_offset_top, 0, StackHeight)

====
